---- MODULE Spec2Model ----
(***************************************************************************)
(* ExtractMogi: the extraction pipeline of AsyncCSVProcessor.process_all   *)
(* (src/src/processors/async_processor.py), the challenge gate of          *)
(* GoogleScraper.search_company (src/src/scrappers/google_scraper.py), the *)
(* enrichment of FacebookScraper.extract_contact_info and the upsert of    *)
(* _save_to_database against the extract_mogi table.                       *)
(*                                                                         *)
(* One action per step of the per-subject loop.  Every await that can      *)
(* raise (callbacks, page open/close, navigation, commit) is a             *)
(* nondeterministic choice between returning and raising.  The callbacks   *)
(* are all set, as main.py sets them.                                      *)
(***************************************************************************)
EXTENDS Integers, Sequences, FiniteSets, TLC

VARIABLES
    companies,          \* read_csv(): the ordered subject list
    headless,           \* self.headless
    store,              \* rows of table extract_mogi, in insertion order
    stats,              \* the stats dict of process_all
    idx,                \* loop counter of enumerate(companies, 1); 0 before the loop
    nome_empresa,       \* loop variable
    pc,                 \* position in process_all / search_company
    result,             \* search_company's local result dict
    exc,                \* exception propagating through search_company's finally
    company_data,       \* _process_company's dict, NoData until built
    captcha_detected,   \* GoogleScraper._captcha_detected
    session,            \* the browser context: "closed" | "open"
    pages,              \* number of pages open in the context
    trace,              \* steps and events of the current subject, in order
    input,              \* argument of the helper function under study
    output              \* what the helper function returned for it

\* The pipeline's state, and the argument/return pair of a helper call.
pipeline == <<companies, headless, store, stats, idx, nome_empresa, pc, result,
              exc, company_data, captcha_detected, session, pages, trace>>

io == <<input, output>>

vars == <<companies, headless, store, stats, idx, nome_empresa, pc, result, exc,
          company_data, captcha_detected, session, pages, trace, input, output>>

(***************************************************************************)
(* Bounds and value domains                                                *)
(***************************************************************************)
MaxSubjects == 2

Names == {"a", "b"}

\* Python None: an absent field.  Present values are positive.
None == 0

\* The value a stage extracts while processing the i-th subject.
Val(i) == i

Present(v) == v # None

BoundedSeq(S, n) == UNION {[1..k -> S] : k \in 0..n}

\* The subject lists of a run.  Names are interchangeable, so a list starts
\* with "a"; a later subject repeats it or is the other name.
SubjectLists == {s \in BoundedSeq(Names, MaxSubjects) : Len(s) > 0 => s[1] = "a"}

Opt(present, i) == IF present THEN Val(i) ELSE None

\* Which of telefone, facebook_link, site a search finds: nothing, each one
\* alone, or all three (the three extractors are independent).
SearchPatterns ==
    {<<FALSE, FALSE, FALSE>>, <<TRUE, FALSE, FALSE>>, <<FALSE, TRUE, FALSE>>,
     <<FALSE, FALSE, TRUE>>, <<TRUE, TRUE, TRUE>>}

\* What the three extractors of search_company can return for subject i.
SearchResults(i) ==
    {[telefone |-> Opt(p[1], i), facebook_link |-> Opt(p[2], i),
      site |-> Opt(p[3], i)] : p \in SearchPatterns}

\* What extract_contact_info can return for subject i.
EnrichResults(i) ==
    {[email |-> Opt(e, i), celular_whatsapp |-> Opt(w, i)] :
        e \in BOOLEAN, w \in BOOLEAN}

EmptyResult == [telefone |-> None, facebook_link |-> None, site |-> None]

NoData == [nome_empresa |-> "", telefone |-> None, site |-> None,
           facebook_link |-> None, email |-> None, celular_whatsapp |-> None]

ZeroStats == [total |-> 0, processadas |-> 0, com_dados |-> 0, sem_dados |-> 0,
              erros |-> 0, captchas |-> 0]

(***************************************************************************)
(* PersistenceMerge: _save_to_database                                     *)
(***************************************************************************)
\* query(...).filter_by(nome_empresa=...).first(): position of the first row
\* with that name, 0 when there is none.
FirstMatch(s, name) ==
    IF \E p \in 1..Len(s) : s[p].nome_empresa = name
    THEN CHOOSE p \in 1..Len(s) :
            /\ s[p].nome_empresa = name
            /\ \A q \in 1..(p - 1) : s[q].nome_empresa # name
    ELSE 0

MergeFieldAlways(old, new) == new

\* for key, value in data.items(): if key != "nome_empresa" and value is not None
MergeField(old, new) == IF new # None THEN new ELSE old

UpdateRow(row, data) ==
    [row EXCEPT !.telefone = MergeField(@, data.telefone),
                !.site = MergeField(@, data.site),
                !.facebook_link = MergeField(@, data.facebook_link),
                !.email = MergeField(@, data.email),
                !.celular_whatsapp = MergeField(@, data.celular_whatsapp)]

\* model_class(**data); id is autoincrement, data_extracao is server-set.
NewRow(s, data, now) ==
    [id |-> Len(s) + 1, nome_empresa |-> data.nome_empresa,
     telefone |-> data.telefone, site |-> data.site,
     facebook_link |-> data.facebook_link, email |-> data.email,
     celular_whatsapp |-> data.celular_whatsapp, data_extracao |-> now]

UpsertAlwaysInserts(s, data, now) == Append(s, NewRow(s, data, now))

UpsertReplacesRow(s, data, now) ==
    LET p == FirstMatch(s, data.nome_empresa)
        rest == [k \in 1..(Len(s) - 1) |-> IF k < p THEN s[k] ELSE s[k + 1]]
    IN  IF p # 0 THEN Append(rest, NewRow(s, data, now))
        ELSE Append(s, NewRow(s, data, now))

\* The committed effect of _save_to_database.
Upsert(s, data, now) ==
    LET p == FirstMatch(s, data.nome_empresa)
    IN  IF p # 0 THEN [s EXCEPT ![p] = UpdateRow(s[p], data)]
        ELSE Append(s, NewRow(s, data, now))

RolledBackKeepsWrite(s, data, now) == Upsert(s, data, now)

\* except: self.db_session.rollback(); raise
RolledBack(s, data, now) == s

(***************************************************************************)
(* PipelineOrchestrator helpers                                            *)
(***************************************************************************)
CurrentCompanyReversed(cs, i) == cs[Len(cs) - i + 1]

\* for idx, nome_empresa in enumerate(companies, 1)
CurrentCompany(cs, i) == cs[i]

\* has_data = any([...]) over the five fields
HasData(d) ==
    \/ Present(d.telefone) \/ Present(d.site) \/ Present(d.facebook_link)
    \/ Present(d.email) \/ Present(d.celular_whatsapp)

CountSuccessForgetsProcessed(st, d) ==
    IF HasData(d) THEN [st EXCEPT !.com_dados = @ + 1]
    ELSE [st EXCEPT !.sem_dados = @ + 1]

CountSuccessBothBuckets(st, d) ==
    [st EXCEPT !.processadas = @ + 1, !.com_dados = @ + 1, !.sem_dados = @ + 1]

\* stats["processadas"] += 1, then com_dados or sem_dados
CountSuccess(st, d) ==
    IF HasData(d)
    THEN [st EXCEPT !.processadas = @ + 1, !.com_dados = @ + 1]
    ELSE [st EXCEPT !.processadas = @ + 1, !.sem_dados = @ + 1]

BucketOf(d) == IF HasData(d) THEN "com_dados" ELSE "sem_dados"

\* company_data built from google_data in _process_company
BuildCompanyData(name, g) ==
    [nome_empresa |-> name, telefone |-> g.telefone, site |-> g.site,
     facebook_link |-> g.facebook_link, email |-> None, celular_whatsapp |-> None]

AfterBuildAlwaysEnrich(g) == "enrich"

AfterBuildNeverEnrich(g) == "save"

\* if google_data.get("facebook_link"): enrich, else return company_data
AfterBuild(g) == IF Present(g.facebook_link) THEN "enrich" ELSE "save"

Log(op) == trace' = Append(trace, op)

(***************************************************************************)
(* Initial state: the processor constructed, the store empty               *)
(***************************************************************************)
Init ==
    /\ companies \in SubjectLists
    /\ headless \in BOOLEAN
    /\ store = <<>>
    /\ stats = ZeroStats
    /\ idx = 0
    /\ nome_empresa = ""
    /\ pc = "construct"
    /\ result = EmptyResult
    /\ exc = "none"
    /\ company_data = NoData
    /\ captcha_detected = FALSE
    /\ session = "closed"
    /\ pages = 0
    /\ trace = <<>>
    /\ input = <<>>
    /\ output = <<>>

(***************************************************************************)
(* process_all                                                             *)
(***************************************************************************)
\* __init__: if not self.csv_path.exists(): raise FileNotFoundError
Construct ==
    /\ pc = "construct"
    /\ \E exists \in BOOLEAN :
        pc' = IF exists THEN "read_csv" ELSE "source_not_found"
    /\ UNCHANGED <<companies, headless, store, stats, idx, nome_empresa, result,
                   exc, company_data, captcha_detected, session, pages, trace>>
    /\ UNCHANGED io

ReadCsvCountsHeader ==
    /\ pc = "read_csv"
    /\ \E ok \in BOOLEAN :
        IF ok THEN /\ stats' = [ZeroStats EXCEPT !.total = Len(companies) + 1]
                   /\ pc' = "enter"
        ELSE /\ stats' = stats
             /\ pc' = "source_not_found"
    /\ UNCHANGED <<companies, headless, store, idx, nome_empresa, result, exc,
                   company_data, captcha_detected, session, pages, trace>>
    /\ UNCHANGED io

ReadCsvInsideSession ==
    /\ pc = "read_csv"
    /\ session' = "open"
    /\ \E ok \in BOOLEAN :
        IF ok THEN /\ stats' = [ZeroStats EXCEPT !.total = Len(companies)]
                   /\ pc' = "enter"
        ELSE /\ stats' = stats
             /\ pc' = "source_not_found"
    /\ UNCHANGED <<companies, headless, store, idx, nome_empresa, result, exc,
                   company_data, captcha_detected, pages, trace>>
    /\ UNCHANGED io

\* companies = self.read_csv(); total = len(companies); stats = {...}
\* read_csv re-raises what open() raises (the file removed since __init__),
\* before "async with GoogleScraper".
ReadCsv ==
    /\ pc = "read_csv"
    /\ \E ok \in BOOLEAN :
        IF ok THEN /\ stats' = [ZeroStats EXCEPT !.total = Len(companies)]
                   /\ pc' = "enter"
        ELSE /\ stats' = stats
             /\ pc' = "source_not_found"
    /\ UNCHANGED <<companies, headless, store, idx, nome_empresa, result, exc,
                   company_data, captcha_detected, session, pages, trace>>
    /\ UNCHANGED io

\* async with GoogleScraper(...) as google_scraper
EnterSession ==
    /\ pc = "enter"
    /\ session' = "open"
    /\ pc' = "loop"
    /\ UNCHANGED <<companies, headless, store, stats, idx, nome_empresa, result,
                   exc, company_data, captcha_detected, pages, trace>>
    /\ UNCHANGED io

\* Next iteration of the for loop and the on_company_start callback.
CompanyStart ==
    /\ pc = "loop"
    /\ idx < Len(companies)
    /\ idx' = idx + 1
    /\ nome_empresa' = CurrentCompany(companies, idx + 1)
    /\ trace' = <<"start">>
    /\ company_data' = NoData
    /\ result' = EmptyResult
    /\ exc' = "none"
    /\ \E ok \in BOOLEAN : pc' = IF ok THEN "progress" ELSE "except_error"
    /\ UNCHANGED <<companies, headless, store, stats, captcha_detected, session,
                   pages>>
    /\ UNCHANGED io

\* await self.on_progress(idx, total, percentage)
Progress ==
    /\ pc = "progress"
    /\ Log("progress")
    /\ \E ok \in BOOLEAN : pc' = IF ok THEN "search" ELSE "except_error"
    /\ UNCHANGED <<companies, headless, store, stats, idx, nome_empresa, result,
                   exc, company_data, captcha_detected, session, pages>>
    /\ UNCHANGED io

(***************************************************************************)
(* GoogleScraper.search_company                                            *)
(***************************************************************************)
\* result = {...None}; page = await self.context.new_page()  (outside the try)
OpenPage ==
    /\ pc = "search"
    /\ result' = EmptyResult
    /\ exc' = "none"
    /\ \E ok \in BOOLEAN :
        IF ok THEN /\ pages' = pages + 1
                   /\ pc' = "goto"
                   /\ Log("search")
        ELSE /\ pages' = pages
             /\ pc' = "except_error"
             /\ Log("search_failed")
    /\ UNCHANGED <<companies, headless, store, stats, idx, nome_empresa,
                   company_data, captcha_detected, session>>
    /\ UNCHANGED io

\* set_extra_http_headers, page.goto, sleep: a failure is caught by
\* "except Exception" of search_company, which only logs it.
Goto ==
    /\ pc = "goto"
    /\ \E ok \in BOOLEAN :
        IF ok THEN /\ pc' = "check"
                   /\ UNCHANGED trace
        ELSE /\ pc' = "close"
             /\ Log("nav_error")
    /\ UNCHANGED <<companies, headless, store, stats, idx, nome_empresa, result,
                   exc, company_data, captcha_detected, session, pages>>
    /\ UNCHANGED io

\* captcha_detected = await self._check_for_captcha(page)
CheckCaptcha ==
    /\ pc = "check"
    /\ \E detected \in BOOLEAN :
        IF detected THEN /\ captcha_detected' = TRUE
                         /\ pc' = "notify"
                         /\ Log("detected")
        ELSE /\ captcha_detected' = captcha_detected
             /\ pc' = "extract"
             /\ UNCHANGED trace
    /\ UNCHANGED <<companies, headless, store, stats, idx, nome_empresa, result,
                   exc, company_data, session, pages>>
    /\ UNCHANGED io

NotifyAfterRecovery ==
    /\ pc = "notify"
    /\ pc' = "gate"
    /\ UNCHANGED <<companies, headless, store, stats, idx, nome_empresa, result,
                   exc, company_data, captcha_detected, session, pages, trace>>
    /\ UNCHANGED io

\* await self.captcha_callback(nome_empresa) -> on_captcha_detected; the
\* callback raising is caught by "except Exception" of search_company.
NotifyCaptcha ==
    /\ pc = "notify"
    /\ Log("captcha_notify")
    /\ \E ok \in BOOLEAN : pc' = IF ok THEN "gate" ELSE "close"
    /\ UNCHANGED <<companies, headless, store, stats, idx, nome_empresa, result,
                   exc, company_data, captcha_detected, session, pages>>
    /\ UNCHANGED io

\* if self.headless: raise CaptchaDetectedException(...)
Escalate ==
    /\ pc = "gate"
    /\ headless
    /\ exc' = "captcha"
    /\ pc' = "close"
    /\ Log("escalated")
    /\ UNCHANGED <<companies, headless, store, stats, idx, nome_empresa, result,
                   company_data, captcha_detected, session, pages>>
    /\ UNCHANGED io

GateStaysSet(flag) == flag

\* self._captcha_detected = False, after the wait returned
GateAfterResolve(flag) == FALSE

\* await self._wait_for_human_intervention(page, nome_empresa);
\* self._captcha_detected = False.  wait_for_selector("div#search",
\* timeout=300000) returns, or times out (CaptchaDetectedException), or
\* raises something else (the page was closed), which "except Exception"
\* of search_company logs.
WaitForHuman ==
    /\ pc = "gate"
    /\ ~headless
    /\ \/ /\ captcha_detected' = GateAfterResolve(captcha_detected)
          /\ exc' = exc
          /\ pc' = "extract"
          /\ Log("resolved")
       \/ /\ captcha_detected' = captcha_detected
          /\ exc' = "captcha"
          /\ pc' = "close"
          /\ Log("timed_out")
       \/ /\ captcha_detected' = captcha_detected
          /\ exc' = exc
          /\ pc' = "close"
          /\ Log("nav_error")
    /\ UNCHANGED <<companies, headless, store, stats, idx, nome_empresa, result,
                   company_data, session, pages>>
    /\ UNCHANGED io

\* scroll, then _extract_phone, _extract_website, _extract_facebook_link
\* (each catches its own exceptions and returns None)
Extract ==
    /\ pc = "extract"
    /\ \/ /\ result' \in SearchResults(idx)
          /\ Log("extract")
       \/ \* page.evaluate raised: caught and logged by search_company
          /\ result' = result
          /\ Log("nav_error")
    /\ pc' = "close"
    /\ UNCHANGED <<companies, headless, store, stats, idx, nome_empresa, exc,
                   company_data, captcha_detected, session, pages>>
    /\ UNCHANGED io

\* finally: await page.close(); then re-raise or return result.  A failing
\* close replaces whatever was propagating.
ClosePage ==
    /\ pc = "close"
    /\ \E ok \in BOOLEAN :
        IF ok THEN /\ pages' = pages - 1
                   /\ pc' = IF exc = "captcha" THEN "except_captcha" ELSE "build"
                   /\ Log("search_done")
        ELSE /\ pages' = pages
             /\ pc' = "except_error"
             /\ Log("close_failed")
    /\ exc' = "none"
    /\ UNCHANGED <<companies, headless, store, stats, idx, nome_empresa, result,
                   company_data, captcha_detected, session>>
    /\ UNCHANGED io

(***************************************************************************)
(* _process_company                                                        *)
(***************************************************************************)
\* company_data = {...}; if google_data.get("facebook_link"): ...
Build ==
    /\ pc = "build"
    /\ company_data' = BuildCompanyData(nome_empresa, result)
    /\ pc' = AfterBuild(result)
    /\ result' = EmptyResult
    /\ UNCHANGED <<companies, headless, store, stats, idx, nome_empresa, exc,
                   captcha_detected, session, pages, trace>>
    /\ UNCHANGED io

EnrichFailureEscapes ==
    /\ pc = "enrich"
    /\ Log("enrich")
    /\ \/ /\ \E fb \in EnrichResults(idx) :
                company_data' = [company_data EXCEPT
                                    !.email = fb.email,
                                    !.celular_whatsapp = fb.celular_whatsapp]
          /\ pages' = pages
          /\ pc' = "save"
       \/ /\ company_data' = company_data
          /\ pages' \in {pages, pages + 1}
          /\ pc' = "except_error"
    /\ UNCHANGED <<companies, headless, store, stats, idx, nome_empresa, result,
                   exc, captcha_detected, session>>
    /\ UNCHANGED io

\* facebook_data = await self._extract_facebook_data(...);
\* company_data.update(facebook_data); any exception is logged and dropped.
\* extract_contact_info swallows its own failures and returns both None.
Enrich ==
    /\ pc = "enrich"
    /\ Log("enrich")
    /\ \/ \E fb \in EnrichResults(idx) :
            /\ company_data' = [company_data EXCEPT
                                   !.email = fb.email,
                                   !.celular_whatsapp = fb.celular_whatsapp]
            /\ pages' = pages
       \/ \* context.new_page() raised
          /\ company_data' = company_data
          /\ pages' = pages
       \/ \* page.close() raised in the finally of _extract_facebook_data
          /\ company_data' = company_data
          /\ pages' = pages + 1
    /\ pc' = "save"
    /\ UNCHANGED <<companies, headless, store, stats, idx, nome_empresa, result,
                   exc, captcha_detected, session>>
    /\ UNCHANGED io

(***************************************************************************)
(* process_all, after _process_company                                     *)
(***************************************************************************)
SaveEmitsCompleteFirst ==
    /\ pc = "save"
    /\ store' = Upsert(store, company_data, idx)
    /\ pc' = "stats"
    /\ trace' = trace \o <<"complete", "save">>
    /\ UNCHANGED <<companies, headless, stats, idx, nome_empresa, result, exc,
                   company_data, captcha_detected, session, pages>>
    /\ UNCHANGED io

\* self._save_to_database(company_data)
Save ==
    /\ pc = "save"
    /\ \E ok \in BOOLEAN :
        IF ok THEN /\ store' = Upsert(store, company_data, idx)
                   /\ pc' = "stats"
                   /\ Log("save")
        ELSE /\ store' = RolledBack(store, company_data, idx)
             /\ pc' = "except_error"
             /\ Log("save_failed")
    /\ UNCHANGED <<companies, headless, stats, idx, nome_empresa, result, exc,
                   company_data, captcha_detected, session, pages>>
    /\ UNCHANGED io

\* stats["processadas"] += 1; has_data; com_dados / sem_dados
UpdateStats ==
    /\ pc = "stats"
    /\ stats' = CountSuccess(stats, company_data)
    /\ pc' = "complete"
    /\ Log(BucketOf(company_data))
    /\ UNCHANGED <<companies, headless, store, idx, nome_empresa, result, exc,
                   company_data, captcha_detected, session, pages>>
    /\ UNCHANGED io

\* await self.on_company_complete(nome_empresa, company_data)
Complete ==
    /\ pc = "complete"
    /\ Log("complete")
    /\ \E ok \in BOOLEAN : pc' = IF ok THEN "sleep" ELSE "except_error"
    /\ UNCHANGED <<companies, headless, store, stats, idx, nome_empresa, result,
                   exc, company_data, captcha_detected, session, pages>>
    /\ UNCHANGED io

\* delay = random.uniform(3, 7); await asyncio.sleep(delay)
Sleep ==
    /\ pc = "sleep"
    /\ Log("sleep")
    /\ pc' = "loop"
    /\ UNCHANGED <<companies, headless, store, stats, idx, nome_empresa, result,
                   exc, company_data, captcha_detected, session, pages>>
    /\ UNCHANGED io

HandleCaptchaAsError ==
    /\ pc = "except_captcha"
    /\ stats' = [stats EXCEPT !.captchas = @ + 1, !.erros = @ + 1]
    /\ trace' = trace \o <<"captchas", "erros", "error_event">>
    /\ \E ok \in BOOLEAN :
        IF ok THEN /\ pc' = "loop"
                   /\ session' = session
        ELSE /\ pc' = "aborted"
             /\ session' = "closed"
    /\ UNCHANGED <<companies, headless, store, idx, nome_empresa, result, exc,
                   company_data, captcha_detected, pages>>
    /\ UNCHANGED io

\* except CaptchaDetectedException: captchas += 1; on_error; continue.
\* on_error raising leaves process_all through __aexit__.
HandleCaptcha ==
    /\ pc = "except_captcha"
    /\ stats' = [stats EXCEPT !.captchas = @ + 1]
    /\ trace' = trace \o <<"captchas", "error_event">>
    /\ \E ok \in BOOLEAN :
        IF ok THEN /\ pc' = "loop"
                   /\ session' = session
        ELSE /\ pc' = "aborted"
             /\ session' = "closed"
    /\ UNCHANGED <<companies, headless, store, idx, nome_empresa, result, exc,
                   company_data, captcha_detected, pages>>
    /\ UNCHANGED io

\* except Exception: erros += 1; on_error.
HandleError ==
    /\ pc = "except_error"
    /\ stats' = [stats EXCEPT !.erros = @ + 1]
    /\ trace' = trace \o <<"erros", "error_event">>
    /\ \E ok \in BOOLEAN :
        IF ok THEN /\ pc' = "loop"
                   /\ session' = session
        ELSE /\ pc' = "aborted"
             /\ session' = "closed"
    /\ UNCHANGED <<companies, headless, store, idx, nome_empresa, result, exc,
                   company_data, captcha_detected, pages>>
    /\ UNCHANGED io

\* The loop is exhausted: __aexit__ closes the context, return stats.
Return ==
    /\ pc = "loop"
    /\ idx = Len(companies)
    /\ session' = "closed"
    /\ pc' = "done"
    /\ UNCHANGED <<companies, headless, store, stats, idx, nome_empresa, result,
                   exc, company_data, captcha_detected, pages, trace>>
    /\ UNCHANGED io

Next ==
    \/ Construct
    \/ ReadCsv
    \/ EnterSession
    \/ CompanyStart
    \/ Progress
    \/ OpenPage
    \/ Goto
    \/ CheckCaptcha
    \/ NotifyCaptcha
    \/ Escalate
    \/ WaitForHuman
    \/ Extract
    \/ ClosePage
    \/ Build
    \/ Enrich
    \/ Save
    \/ UpdateStats
    \/ Complete
    \/ Sleep
    \/ HandleCaptcha
    \/ HandleError
    \/ Return

Spec == Init /\ [][Next]_vars

\* Every await of the run returns or raises within its bound (the challenge
\* wait within its 300 s timeout): a step that is possible is taken.
SpecFair == Init /\ [][Next]_vars /\ WF_vars(Next)

(***************************************************************************)
(* The end-to-end scenario: two subjects, the first search finds a site    *)
(* only, the second a social link only whose enrichment finds an email;    *)
(* no step raises and a challenge, if one shows up in an attended         *)
(* session, is resolved.                                                   *)
(***************************************************************************)
ScenarioSearch(i) ==
    IF i = 1
    THEN [telefone |-> None, facebook_link |-> None, site |-> Val(i)]
    ELSE [telefone |-> None, facebook_link |-> Val(i), site |-> None]

ScenarioEnv ==
    /\ pc' \notin {"source_not_found", "except_error", "except_captcha", "aborted"}
    /\ pc = "goto" => pc' = "check"
    /\ (pc = "check" /\ headless) => pc' = "extract"
    /\ pc = "notify" => pc' = "gate"
    /\ pc = "gate" => pc' = "extract"
    /\ pc = "extract" => result' = ScenarioSearch(idx)
    /\ pc = "enrich" =>
          /\ company_data'.email = Val(idx)
          /\ pages' = pages

NextScenario == Next /\ ScenarioEnv

SpecScenario == Init /\ [][NextScenario]_vars

(***************************************************************************)
(* The runs in which every page.close() returns                            *)
(***************************************************************************)
\* "await page.close()" in the finally of search_company and of
\* _extract_facebook_data does not raise.
PageCloseReturns ==
    /\ pc = "close" => trace' # Append(trace, "close_failed")
    /\ pc = "enrich" => pages' = pages

NextPagesClose == Next /\ PageCloseReturns

SpecPagesClose == Init /\ [][NextPagesClose]_vars

(***************************************************************************)
(* The runs in which no event callback raises                              *)
(***************************************************************************)
\* on_company_start, on_progress, on_captcha_detected, on_company_complete
\* and on_error return.
CallbacksReturn ==
    /\ (pc = "loop" /\ pc' # "done") => pc' = "progress"
    /\ pc = "progress" => pc' = "search"
    /\ pc = "notify" => pc' = "gate"
    /\ pc = "complete" => pc' = "sleep"
    /\ pc \in {"except_captcha", "except_error"} => pc' = "loop"

NextCallbacksReturn == Next /\ CallbacksReturn

SpecCallbacksReturn == Init /\ [][NextCallbacksReturn]_vars

(***************************************************************************)
(* Helper functions, each called once on an argument drawn from a bounded  *)
(* set.  The pipeline is idle while a helper is studied.                   *)
(***************************************************************************)
IdlePipeline(at) ==
    /\ companies = <<>>
    /\ headless = TRUE
    /\ stats = ZeroStats
    /\ idx = 0
    /\ nome_empresa = ""
    /\ pc = at
    /\ result = EmptyResult
    /\ exc = "none"
    /\ company_data = NoData
    /\ captcha_detected = FALSE
    /\ session = "closed"
    /\ pages = 0
    /\ trace = <<>>

(***************************************************************************)
(* GoogleScraper._format_phone                                             *)
(***************************************************************************)
MaxPhoneLen == 11

\* re's \d
IsDigit(c) == c \in {"0", "1", "2", "3", "4", "5", "6", "7", "8", "9"}

\* Raw phone texts: two digits and a separator character.
PhoneChars == {"1", "9", "-"}

PhoneInputs == BoundedSeq(PhoneChars, MaxPhoneLen)

\* phone = re.sub(r"[^\d]", "", phone)
RemoveNonDigits(phone) == SelectSeq(phone, IsDigit)

FormatPhoneSplitsTenAsEleven(phone) ==
    LET d == RemoveNonDigits(phone)
        n == Len(d)
    IN  IF n \in {10, 11}
        THEN <<"(">> \o SubSeq(d, 1, 2) \o <<")", " ">> \o SubSeq(d, 3, 7)
                 \o <<"-">> \o SubSeq(d, 8, n)
        ELSE IF n = 9 THEN SubSeq(d, 1, 5) \o <<"-">> \o SubSeq(d, 6, n)
        ELSE IF n = 8 THEN SubSeq(d, 1, 4) \o <<"-">> \o SubSeq(d, 5, n)
        ELSE d

\* The f-strings of _format_phone; phone[a:b] is SubSeq(d, a + 1, b).
FormatPhone(phone) ==
    LET d == RemoveNonDigits(phone)
        n == Len(d)
    IN  IF n = 11
        THEN <<"(">> \o SubSeq(d, 1, 2) \o <<")", " ">> \o SubSeq(d, 3, 7)
                 \o <<"-">> \o SubSeq(d, 8, n)
        ELSE IF n = 10
        THEN <<"(">> \o SubSeq(d, 1, 2) \o <<")", " ">> \o SubSeq(d, 3, 6)
                 \o <<"-">> \o SubSeq(d, 7, n)
        ELSE IF n = 9 THEN SubSeq(d, 1, 5) \o <<"-">> \o SubSeq(d, 6, n)
        ELSE IF n = 8 THEN SubSeq(d, 1, 4) \o <<"-">> \o SubSeq(d, 5, n)
        ELSE d

InitPhone ==
    /\ IdlePipeline("format_phone")
    /\ store = <<>>
    /\ input \in PhoneInputs
    /\ output = <<>>

CallFormatPhone ==
    /\ pc = "format_phone"
    /\ output' = FormatPhone(input)
    /\ pc' = "phone_formatted"
    /\ UNCHANGED <<companies, headless, store, stats, idx, nome_empresa, result,
                   exc, company_data, captcha_detected, session, pages, trace,
                   input>>

NextPhone == CallFormatPhone

SpecPhone == InitPhone /\ [][NextPhone]_vars

(***************************************************************************)
(* DataExporter.export_with_uri_filter                                     *)
(***************************************************************************)
MaxRows == 2

\* Any content of table extract_mogi: every field NULL or set, ids and
\* extraction times by insertion order.
StoreRows(p) ==
    {[id |-> p, nome_empresa |-> "a", telefone |-> t, site |-> w,
      facebook_link |-> f, email |-> e, celular_whatsapp |-> c,
      data_extracao |-> p] :
        t \in {None, Val(1)}, w \in {None, Val(1)}, f \in {None, Val(1)},
        e \in {None, Val(1)}, c \in {None, Val(1)}}

StoreContents ==
    {s \in BoundedSeq(UNION {StoreRows(p) : p \in 1..MaxRows}, MaxRows) :
        \A p \in 1..Len(s) : s[p].id = p}

QualifiesBoth(row) == Present(row.site) /\ Present(row.facebook_link)

\* .filter((site.isnot(None)) | (facebook_link.isnot(None)))
Qualifies(row) == Present(row.site) \/ Present(row.facebook_link)

\* One dict of data_to_export; "value or ''" writes an absent field as an
\* empty cell, here None.
ExportLine(row) ==
    [nome_empresa |-> row.nome_empresa, telefone |-> row.telefone,
     celular_whatsapp |-> row.celular_whatsapp,
     facebook_link |-> row.facebook_link, email |-> row.email,
     site |-> row.site, data_extracao |-> row.data_extracao]

\* The returned path (is there one) and the lines of the file written.
ExportWithUriFilter(s) ==
    LET found == SelectSeq(s, Qualifies)
    IN  IF found = <<>> THEN [path |-> FALSE, file |-> <<>>]
        ELSE [path |-> TRUE,
              file |-> [k \in 1..Len(found) |-> ExportLine(found[k])]]

InitExport ==
    /\ IdlePipeline("export")
    /\ store \in StoreContents
    /\ input = store
    /\ output = <<>>

\* export_with_uri_filter: returns, or re-raises what the query or the
\* file write raised.
CallExport ==
    /\ pc = "export"
    /\ \E ok \in BOOLEAN :
        IF ok THEN /\ output' = ExportWithUriFilter(store)
                   /\ pc' = "exported"
        ELSE /\ output' = output
             /\ pc' = "export_failed"
    /\ UNCHANGED <<companies, headless, store, stats, idx, nome_empresa, result,
                   exc, company_data, captcha_detected, session, pages, trace,
                   input>>

NextExport == CallExport

SpecExport == InitExport /\ [][NextExport]_vars

(***************************************************************************)
(* FacebookScraper._extract_email                                          *)
(* A text is a sequence of fragments; "x in y" is the contiguous           *)
(* subsequence test.                                                       *)
(***************************************************************************)
MaxEmails == 2

\* str.lower() on the fragments that carry capitals.
LowerFragment(f) ==
    CASE f = "Contato" -> "contato"
      [] f = "Padaria" -> "padaria"
      [] f = "Example" -> "example"
      [] f = ".COM" -> ".com"
      [] OTHER -> f

Lower(text) == [k \in 1..Len(text) |-> LowerFragment(text[k])]

\* pat in text
Contains(text, pat) ==
    \E i \in 0..(Len(text) - Len(pat)) : SubSeq(text, i + 1, i + Len(pat)) = pat

\* excluded_domains
ExcludedDomains ==
    {<<"facebook", ".com">>, <<"instagram", ".com">>, <<"twitter", ".com">>,
     <<"google", ".com">>, <<"outlook", ".com">>, <<"example", ".com">>}

\* The email-shaped substrings re.findall can return, local@domain:
\* support@facebook.com, contato@padaria.com.br, Contato@Padaria.com.br,
\* vendas@lojaexample.com, loja@meufacebook.com,
\* facebook.com@padaria.com.br, x@google.com, info@Example.COM.
EmailMatches ==
    {<<"support", "@", "facebook", ".com">>,
     <<"contato", "@", "padaria", ".com", ".br">>,
     <<"Contato", "@", "Padaria", ".com", ".br">>,
     <<"vendas", "@", "loja", "example", ".com">>,
     <<"loja", "@", "meu", "facebook", ".com">>,
     <<"facebook", ".com", "@", "padaria", ".com", ".br">>,
     <<"x", "@", "google", ".com">>,
     <<"info", "@", "Example", ".COM">>}

\* emails = re.findall(email_pattern, content), in order of occurrence.
EmailContents == BoundedSeq(EmailMatches, MaxEmails)

\* Python None for a text result.
NoText == <<>>

\* not any(domain in email.lower() for domain in excluded_domains)
Acceptable(email) == \A d \in ExcludedDomains : ~Contains(Lower(email), d)

\* for email in emails: if <acceptable>: return email.lower(); return None
ExtractEmail(emails) ==
    IF \E k \in 1..Len(emails) : Acceptable(emails[k])
    THEN Lower(emails[CHOOSE k \in 1..Len(emails) :
                         /\ Acceptable(emails[k])
                         /\ \A j \in 1..(k - 1) : ~Acceptable(emails[j])])
    ELSE NoText

InitEmail ==
    /\ IdlePipeline("extract_email")
    /\ store = <<>>
    /\ input \in EmailContents
    /\ output = NoText

CallExtractEmail ==
    /\ pc = "extract_email"
    /\ output' = ExtractEmail(input)
    /\ pc' = "email_extracted"
    /\ UNCHANGED <<companies, headless, store, stats, idx, nome_empresa, result,
                   exc, company_data, captcha_detected, session, pages, trace,
                   input>>

NextEmail == CallExtractEmail

SpecEmail == InitEmail /\ [][NextEmail]_vars

(***************************************************************************)
(* GoogleScraper._extract_website and _extract_facebook_link: the Google   *)
(* redirect wrapper "/url?..."                                             *)
(***************************************************************************)
MaxLinks == 2

\* Python None for an href or a query parameter.
NoHref == ""

\* What an href can point at.
Hosts == {"padaria.com.br", "facebook.com", "google.com"}

\* The anchors of a result page.  A plain anchor has an absolute href; a
\* wrapper's href is "/url?" with query parameters url and q, each present
\* or not.  place: inside the knowledge panel selectors, next to a "site"
\* keyword, or anywhere else.
Anchors ==
    {[wrapper |-> FALSE, href |-> h, url |-> NoHref, q |-> NoHref, place |-> pl] :
        h \in Hosts, pl \in {"panel", "keyword", "other"}}
    \cup
    {[wrapper |-> TRUE, href |-> NoHref, url |-> u, q |-> v, place |-> pl] :
        u \in {NoHref, "padaria.com.br"},
        v \in {NoHref, "padaria.com.br", "facebook.com"},
        pl \in {"panel", "keyword", "other"}}

ResultPages == BoundedSeq(Anchors, MaxLinks)

\* The domain names that occur in the href attribute as written.
RawMentions(a) == IF a.wrapper THEN {a.url, a.q} \ {NoHref} ELSE {a.href}

\* if href.startswith("/url?"):
\*     href = parsed.get("url", [parsed.get("q", [None])[0]])[0]
Unwrap(a) ==
    IF a.wrapper THEN (IF a.url # NoHref THEN a.url ELSE a.q) ELSE a.href

\* The first of a set of positions, 0 when there is none: the loops return
\* at the first anchor that passes.
FirstOf(S) == IF S = {} THEN 0 ELSE CHOOSE k \in S : \A j \in S : k <= j

\* The selector loop of _extract_website: the host test is made on the
\* href attribute as written, then the wrapper is unwrapped.
PanelHit(a) ==
    /\ a.place = "panel"
    /\ RawMentions(a) \cap {"google.com", "facebook.com"} = {}
    /\ Unwrap(a) # NoHref

\* The all_links loop of _extract_website (a[href*='http']): unwrap, host
\* test, then the keyword in the parent's text.
KeywordHit(a) ==
    /\ RawMentions(a) # {}
    /\ Unwrap(a) # NoHref
    /\ Unwrap(a) \notin {"google.com", "facebook.com"}
    /\ a.place = "keyword"

ExtractWebsite(page) ==
    LET p == FirstOf({i \in 1..Len(page) : PanelHit(page[i])})
        k == FirstOf({i \in 1..Len(page) : KeywordHit(page[i])})
    IN  IF p # 0 THEN Unwrap(page[p])
        ELSE IF k # 0 THEN Unwrap(page[k])
        ELSE NoHref

\* The loop of _extract_facebook_link: unwrap, then the host test.
SocialHit(a) == Unwrap(a) = "facebook.com"

ExtractFacebookLink(page) ==
    LET k == FirstOf({i \in 1..Len(page) : SocialHit(page[i])})
    IN  IF k # 0 THEN Unwrap(page[k]) ELSE NoHref

InitLinks ==
    /\ IdlePipeline("extract_links")
    /\ store = <<>>
    /\ input \in ResultPages
    /\ output = NoText

CallExtractLinks ==
    /\ pc = "extract_links"
    /\ output' = [site |-> ExtractWebsite(input),
                  facebook_link |-> ExtractFacebookLink(input)]
    /\ pc' = "links_extracted"
    /\ UNCHANGED <<companies, headless, store, stats, idx, nome_empresa, result,
                   exc, company_data, captcha_detected, session, pages, trace,
                   input>>

NextLinks == CallExtractLinks

SpecLinks == InitLinks /\ [][NextLinks]_vars

(***************************************************************************)
(* AsyncCSVProcessor.read_csv                                              *)
(***************************************************************************)
MaxCsvRows == 2

MaxCellLen == 3

\* The text of a cell: letters and spaces.
CellTexts == BoundedSeq({"x", " "}, MaxCellLen)

\* A row as csv.DictReader yields it: the Nome_Fantasia cell with its text,
\* or None for a row with fewer fields than the header (restval).
CsvRows ==
    {[cell |-> TRUE, text |-> t] : t \in CellTexts}
    \cup {[cell |-> FALSE, text |-> NoText]}

\* A subject file: whether the header has the Nome_Fantasia column, and
\* the data rows in file order.
CsvFiles ==
    {[column |-> c, rows |-> r] :
        c \in BOOLEAN, r \in BoundedSeq(CsvRows, MaxCsvRows)}

RECURSIVE LStrip(_)
LStrip(t) == IF t # <<>> /\ Head(t) = " " THEN LStrip(Tail(t)) ELSE t

RECURSIVE RStrip(_)
RStrip(t) ==
    IF t # <<>> /\ t[Len(t)] = " " THEN RStrip(SubSeq(t, 1, Len(t) - 1)) ELSE t

\* str.strip()
Strip(t) == RStrip(LStrip(t))

\* row.get("Nome_Fantasia", ""): the default only when the key is missing.
Get(file, row) == IF file.column THEN row ELSE [cell |-> TRUE, text |-> NoText]

\* nome = row.get("Nome_Fantasia", "").strip() raises AttributeError on
\* None; read_csv logs and re-raises.
ReadRaises(file) ==
    \E k \in 1..Len(file.rows) : ~Get(file, file.rows[k]).cell

NonBlank(row) == Strip(row.text) # <<>>

\* if nome: companies.append(nome)
ReadCompanies(file) ==
    LET got == [k \in 1..Len(file.rows) |-> Get(file, file.rows[k])]
        kept == SelectSeq(got, NonBlank)
    IN  [k \in 1..Len(kept) |-> Strip(kept[k].text)]

InitCsv ==
    /\ IdlePipeline("csv_file")
    /\ store = <<>>
    /\ input \in CsvFiles
    /\ output = NoText

\* companies = self.read_csv(); total = len(companies)
CallReadCsv ==
    /\ pc = "csv_file"
    /\ IF ReadRaises(input)
       THEN /\ output' = [raised |-> TRUE, companies |-> <<>>, total |-> 0]
            /\ pc' = "csv_raised"
       ELSE /\ output' = [raised |-> FALSE, companies |-> ReadCompanies(input),
                          total |-> Len(ReadCompanies(input))]
            /\ pc' = "csv_read"
    /\ UNCHANGED <<companies, headless, store, stats, idx, nome_empresa, result,
                   exc, company_data, captcha_detected, session, pages, trace,
                   input>>

NextCsv == CallReadCsv

SpecCsv == InitCsv /\ [][NextCsv]_vars

(***************************************************************************)
(* The progress events of process_all                                      *)
(***************************************************************************)
MaxTotal == 13

PercentageRounded(i, total) == (200 * i + total) \div (2 * total)

\* percentage = int((idx / total) * 100): the quotient truncated.  (Up to
\* MaxTotal the float product truncates to the exact integer quotient.)
Percentage(i, total) == (100 * i) \div total

\* input: the loop counter and total; output: the percentages emitted.
InitProgress ==
    /\ IdlePipeline("progress_events")
    /\ store = <<>>
    /\ input \in {[idx |-> 0, total |-> t] : t \in 1..MaxTotal}
    /\ output = <<>>

\* for idx, ... in enumerate(companies, 1): on_progress(idx, total, percentage)
EmitProgress ==
    /\ pc = "progress_events"
    /\ input.idx < input.total
    /\ input' = [input EXCEPT !.idx = @ + 1]
    /\ output' = Append(output, Percentage(input.idx + 1, input.total))
    /\ UNCHANGED pipeline

NextProgress == EmitProgress

SpecProgress == InitProgress /\ [][NextProgress]_vars

(***************************************************************************)
(* GoogleScraper._extract_facebook_link: the text of the link returned     *)
(* An href is a sequence of fragments, as the email texts are.             *)
(***************************************************************************)
\* The hrefs of the anchors of a result page, wrappers already resolved:
\* https://facebook.com/padaria, https://www.instagram.com/padaria,
\* https://facebook.com/padaria/posts/1, https://instagram.com/p/1,
\* https://facebook.com/padaria?ref=share, https://padaria.com.br/loja,
\* https://padaria.com.br/loja?ref=facebook.com,
\* https://padaria.com.br/loja#instagram.com, ?ref=facebook.com,
\* and <<>> for an empty href or a wrapper that resolves to None.
Hrefs ==
    {<<"https://", "facebook.com", "/padaria">>,
     <<"https://", "www.", "instagram.com", "/padaria">>,
     <<"https://", "facebook.com", "/padaria", "/posts/", "1">>,
     <<"https://", "instagram.com", "/p/", "1">>,
     <<"https://", "facebook.com", "/padaria", "?", "ref=", "share">>,
     <<"https://", "padaria.com.br", "/loja">>,
     <<"https://", "padaria.com.br", "/loja", "?", "ref=", "facebook.com">>,
     <<"https://", "padaria.com.br", "/loja", "#", "instagram.com">>,
     <<"?", "ref=", "facebook.com">>,
     <<>>}

\* all_links, in page order.
LinkPages == BoundedSeq(Hrefs, MaxLinks)

\* text.split(sep)[0]
BeforeFirst(text, sep) ==
    LET k == FirstOf({i \in 1..Len(text) : text[i] = sep})
    IN  IF k = 0 THEN text ELSE SubSeq(text, 1, k - 1)

\* clean_url = href.split("?")[0].split("#")[0]
CleanUrl(href) == BeforeFirst(BeforeFirst(href, "?"), "#")

\* "facebook.com" in text or "instagram.com" in text
MentionsSocial(text) ==
    Contains(text, <<"facebook.com">>) \/ Contains(text, <<"instagram.com">>)

\* "/posts/" in text or "/p/" in text
IsPost(text) == Contains(text, <<"/posts/">>) \/ Contains(text, <<"/p/">>)

\* if href and (<social> in href): ... if <not a post> in clean_url
SocialLinkHit(href) ==
    /\ href # <<>>
    /\ MentionsSocial(href)
    /\ ~IsPost(CleanUrl(href))

\* for link in all_links: ... return clean_url; return None
ExtractFacebookLinkText(page) ==
    LET k == FirstOf({i \in 1..Len(page) : SocialLinkHit(page[i])})
    IN  IF k # 0 THEN [found |-> TRUE, url |-> CleanUrl(page[k])]
        ELSE [found |-> FALSE, url |-> <<>>]

InitSocial ==
    /\ IdlePipeline("extract_social")
    /\ store = <<>>
    /\ input \in LinkPages
    /\ output = <<>>

CallExtractSocial ==
    /\ pc = "extract_social"
    /\ output' = ExtractFacebookLinkText(input)
    /\ pc' = "social_extracted"
    /\ UNCHANGED <<companies, headless, store, stats, idx, nome_empresa, result,
                   exc, company_data, captcha_detected, session, pages, trace,
                   input>>

NextSocial == CallExtractSocial

SpecSocial == InitSocial /\ [][NextSocial]_vars

(***************************************************************************)
(* FacebookScraper._extract_whatsapp and _format_whatsapp                  *)
(* A content is a sequence of fragments, a fragment a sequence of          *)
(* characters; a keyword or a stretch of plain text is one character.      *)
(***************************************************************************)
MaxFragments == 3

\* The texts the pattern 9\s*\d{4}[-\s]?\d{4} matches: 98765-4321 and
\* 9 1234 5678.
NineDigitTexts ==
    {<<"9", "8", "7", "6", "5", "-", "4", "3", "2", "1">>,
     <<"9", " ", "1", "2", "3", "4", " ", "5", "6", "7", "8">>}

\* (?i)(whatsapp|celular|contato|telefone)
Keywords == {<<"WhatsApp">>, <<"celular">>}

\* The fragments of a page content: keywords, a separator, a text of 51
\* characters without digits, bare 9-digit numbers, and numbers written
\* with the area code, "(19) 98765-4321" and "+55 19 98765-4321".
Fragments ==
    Keywords \cup {<<": ">>, <<"texto51">>} \cup NineDigitTexts
    \cup {<<"(", "1", "9", ")", " ">> \o n : n \in NineDigitTexts}
    \cup {<<"+", "5", "5", " ", "1", "9", " ">>
              \o <<"9", "8", "7", "6", "5", "-", "4", "3", "2", "1">>}

Contents == BoundedSeq(Fragments, MaxFragments)

\* The number of characters of a fragment.
FragLen(f) ==
    IF f \in Keywords THEN 8
    ELSE IF f = <<": ">> THEN 2
    ELSE IF f = <<"texto51">> THEN 51
    ELSE Len(f)

\* phone_patterns: what each of the four patterns matches.
PhonePatterns ==
    <<{<<"(", "1", "9", ")", " ">> \o n : n \in NineDigitTexts},
      {<<"1", "9", " ">> \o n : n \in NineDigitTexts},
      {<<"+", "5", "5", " ", "1", "9", " ">> \o n : n \in NineDigitTexts},
      {<<"5", "5", " ", "1", "9", " ">> \o n : n \in NineDigitTexts}>>

\* re.search(pattern, text).group(): the leftmost part of text that the
\* pattern matches, <<>> when there is none.
Search(shapes, text) ==
    LET S == {s \in (1..Len(text)) \X (1..Len(text)) :
                 s[1] <= s[2] /\ SubSeq(text, s[1], s[2]) \in shapes}
    IN  IF S = {} THEN <<>>
        ELSE LET s == CHOOSE s \in S : \A t \in S : s[1] <= t[1]
             IN  SubSeq(text, s[1], s[2])

IsMatch(m) == m # <<>>

\* re.findall(pattern, content) for a pattern without groups.
FindAll(shapes, content) ==
    SelectSeq([k \in 1..Len(content) |-> Search(shapes, content[k])], IsMatch)

\* The characters of content[i+1..j-1].
RECURSIVE Gap(_, _, _)
Gap(content, i, j) ==
    IF i + 1 >= j THEN 0
    ELSE FragLen(content[i + 1]) + Gap(content, i + 1, j)

\* The positions where whatsapp_context matches: a keyword followed, at
\* most 50 characters later, by a 9-digit number.
ContextHits(content) ==
    {i \in 1..Len(content) :
        /\ content[i] \in Keywords
        /\ \E j \in (i + 1)..Len(content) :
              LET n == Search(NineDigitTexts, content[j])
              IN  /\ n # <<>>
                  /\ Gap(content, i, j) + Len(content[j]) - Len(n) <= 50}

\* context_matches[0]: findall returns the pattern's one group, the keyword.
FirstContextMatch(content) == content[FirstOf(ContextHits(content))]

\* _format_whatsapp; phone[-11:] is the last eleven digits.
FormatWhatsapp(phone) ==
    LET d == RemoveNonDigits(phone)
        n == Len(d)
    IN  IF n >= 11
        THEN LET l == SubSeq(d, n - 10, n)
             IN  <<"(">> \o SubSeq(l, 1, 2) \o <<")", " ">> \o SubSeq(l, 3, 7)
                     \o <<"-">> \o SubSeq(l, 8, 11)
        ELSE IF n = 9
        THEN <<"(", "1", "9", ")", " ">> \o SubSeq(d, 1, 5) \o <<"-">>
                 \o SubSeq(d, 6, 9)
        ELSE d

\* len(phone) >= 11 and phone[-11:-9] == "19" and phone[-10] == "9"
ValidMobile(d) ==
    /\ Len(d) >= 11
    /\ SubSeq(d, Len(d) - 10, Len(d) - 9) = <<"1", "9">>
    /\ d[Len(d) - 9] = "9"

\* The pattern loop: the first pattern whose first match is a valid mobile.
LiteralHit(content, p) ==
    /\ FindAll(PhonePatterns[p], content) # <<>>
    /\ ValidMobile(RemoveNonDigits(FindAll(PhonePatterns[p], content)[1]))

ExtractWhatsapp(content) ==
    LET p == FirstOf({q \in 1..4 : LiteralHit(content, q)})
    IN  IF p # 0
        THEN LET d == RemoveNonDigits(FindAll(PhonePatterns[p], content)[1])
             IN  [found |-> TRUE,
                  text |-> FormatWhatsapp(SubSeq(d, Len(d) - 10, Len(d)))]
        ELSE IF ContextHits(content) # {}
        THEN LET number_match ==
                     Search(NineDigitTexts, FirstContextMatch(content))
                 phone == RemoveNonDigits(number_match)
             IN  IF number_match # <<>> /\ Len(phone) = 9
                 THEN [found |-> TRUE,
                       text |-> <<"(", "1", "9", ")", " ">>
                                    \o FormatWhatsapp(<<"1", "9">> \o phone)]
                 ELSE [found |-> FALSE, text |-> <<>>]
        ELSE [found |-> FALSE, text |-> <<>>]

InitWhatsapp ==
    /\ IdlePipeline("extract_whatsapp")
    /\ store = <<>>
    /\ input \in Contents
    /\ output = <<>>

CallExtractWhatsapp ==
    /\ pc = "extract_whatsapp"
    /\ output' = ExtractWhatsapp(input)
    /\ pc' = "whatsapp_extracted"
    /\ UNCHANGED <<companies, headless, store, stats, idx, nome_empresa, result,
                   exc, company_data, captcha_detected, session, pages, trace,
                   input>>

NextWhatsapp == CallExtractWhatsapp

SpecWhatsapp == InitWhatsapp /\ [][NextWhatsapp]_vars

(***************************************************************************)
(* AsyncCSVProcessor._save_to_database, call after call on one store       *)
(***************************************************************************)
MaxUpserts == 3

\* Subject names that differ in case or in trailing whitespace only.
UpsertNames == {"Padaria", "padaria", "Padaria "}

\* The data of the n-th call: a name, and telefone and email each found or
\* not.
UpsertData(n) ==
    {[nome_empresa |-> name, telefone |-> Opt(t, n), site |-> None,
      facebook_link |-> None, email |-> Opt(e, n), celular_whatsapp |-> None] :
        name \in UpsertNames, t \in BOOLEAN, e \in BOOLEAN}

\* input: the calls made so far; output: the data of the last call and
\* whether it was committed.
InitUpsert ==
    /\ IdlePipeline("save_to_database")
    /\ store = <<>>
    /\ input = 0
    /\ output = <<>>

\* _save_to_database(data): the upsert committed, or rolled back and raised.
CallSaveToDatabase ==
    /\ pc = "save_to_database"
    /\ input < MaxUpserts
    /\ \E data \in UpsertData(input + 1), ok \in BOOLEAN :
          /\ store' = IF ok THEN Upsert(store, data, input + 1)
                      ELSE RolledBack(store, data, input + 1)
          /\ output' = [data |-> data, ok |-> ok]
    /\ input' = input + 1
    /\ UNCHANGED <<companies, headless, stats, idx, nome_empresa, result, exc,
                   company_data, captcha_detected, session, pages, trace, pc>>

NextUpsert == CallSaveToDatabase

SpecUpsert == InitUpsert /\ [][NextUpsert]_vars

(***************************************************************************)
(* ExtractMogiApp: the rows its callbacks add to the data table            *)
(***************************************************************************)
\* The status of the row a callback adds: _on_captcha_detected adds a
\* "CAPTCHA" row, _on_error an "Erro" row, _on_company_complete a row with
\* the fields found or "Sem dados"; the other callbacks add none.
RowStatus(op, d) ==
    CASE op = "captcha_notify" -> "challenge"
      [] op = "error_event" -> "error"
      [] op = "complete" -> (IF HasData(d) THEN "found" ELSE "none")
      [] OTHER -> "no_row"

IsRow(status) == status # "no_row"

\* The rows added to the table for the subject whose operations are tr.
TableRows(tr, d) ==
    SelectSeq([k \in 1..Len(tr) |-> RowStatus(tr[k], d)], IsRow)

(***************************************************************************)
(* ExtractMogiApp: the key bindings on the UI thread and the                *)
(* process_companies worker thread.  input is the state of the app, output *)
(* records which thread touched which attribute or widget.                 *)
(***************************************************************************)
MaxActions == 3

MaxEvents == 2

\* __init__ and on_mount
AppInit ==
    [selected_file |-> "none", processing |-> FALSE, db_session |-> "none",
     stats |-> "empty", status |-> "waiting_file", progress |-> "",
     table |-> 0, worker |-> "none", actions |-> 0, events |-> 0]

\* The record the pipeline writes for the subject of the n-th event.
EventRecord(n) ==
    [nome_empresa |-> "a", telefone |-> Val(n), site |-> None,
     facebook_link |-> None, email |-> None, celular_whatsapp |-> None]

\* attr is read or written on thread by.
Touch(out, attrs, by) ==
    [out EXCEPT !.accesses = @ \cup {[attr |-> a, by |-> by] : a \in attrs}]

Did(out, action, refused) ==
    [out EXCEPT !.last = [action |-> action, refused |-> refused]]

InitApp ==
    /\ IdlePipeline("app")
    /\ store = <<>>
    /\ input = AppInit
    /\ output = [accesses |-> {}, last |-> [action |-> "mount", refused |-> FALSE]]

\* action_import_file, with _load_csv_file
ActionImportFile ==
    /\ pc = "app"
    /\ input.actions < MaxActions
    /\ IF input.processing
       THEN /\ input' = [input EXCEPT !.status = "wait_processing",
                                      !.actions = @ + 1]
            /\ output' = Did(Touch(output, {"processing", "status"}, "ui"),
                             "import", TRUE)
       ELSE \E outcome \in {"loaded", "cancelled", "load_failed", "dialog_failed"} :
              /\ input' = [input EXCEPT
                              !.selected_file =
                                  CASE outcome = "loaded" -> "a.csv"
                                    [] outcome = "load_failed" -> "none"
                                    [] OTHER -> @,
                              !.status = outcome,
                              !.progress = IF outcome = "loaded" THEN "ready" ELSE @,
                              !.actions = @ + 1]
              /\ output' = Did(Touch(output,
                                     IF outcome \in {"loaded", "load_failed"}
                                     THEN {"processing", "selected_file", "status",
                                           "progress"}
                                     ELSE {"processing", "status"}, "ui"),
                               "import", FALSE)
    /\ UNCHANGED pipeline

ActionProcessUnguarded ==
    /\ pc = "app"
    /\ input.actions < MaxActions
    /\ IF input.selected_file = "none"
       THEN /\ input' = [input EXCEPT !.status = "select_first", !.actions = @ + 1]
            /\ output' = Did(Touch(output, {"selected_file", "status"}, "ui"),
                             "process", TRUE)
       ELSE /\ input' = [input EXCEPT !.processing = TRUE, !.status = "starting",
                                      !.worker = "started", !.events = 0,
                                      !.actions = @ + 1]
            /\ output' = Did(Touch(output, {"selected_file", "processing",
                                            "status"}, "ui"), "process", FALSE)
    /\ UNCHANGED pipeline

\* action_process: the two guards, then self.processing = True and the
\* worker is started.
ActionProcess ==
    /\ pc = "app"
    /\ input.actions < MaxActions
    /\ IF input.selected_file = "none"
       THEN /\ input' = [input EXCEPT !.status = "select_first", !.actions = @ + 1]
            /\ output' = Did(Touch(output, {"selected_file", "status"}, "ui"),
                             "process", TRUE)
       ELSE IF input.processing
       THEN /\ input' = [input EXCEPT !.status = "already_running",
                                      !.actions = @ + 1]
            /\ output' = Did(Touch(output, {"selected_file", "processing",
                                            "status"}, "ui"), "process", TRUE)
       ELSE /\ input' = [input EXCEPT !.processing = TRUE, !.status = "starting",
                                      !.worker = "started", !.events = 0,
                                      !.actions = @ + 1]
            /\ output' = Did(Touch(output, {"selected_file", "processing",
                                            "status"}, "ui"), "process", FALSE)
    /\ UNCHANGED pipeline

\* action_export: the guard, then export_with_uri_filter on its own session.
ActionExport ==
    /\ pc = "app"
    /\ input.actions < MaxActions
    /\ IF input.processing
       THEN /\ input' = [input EXCEPT !.status = "wait_export", !.actions = @ + 1]
            /\ output' = Did(Touch(output, {"processing", "status"}, "ui"),
                             "export", TRUE)
       ELSE \E outcome \in {"exported", "nothing_to_export", "export_failed"} :
              /\ input' = [input EXCEPT
                              !.status = outcome,
                              !.progress = IF outcome = "exported" THEN "saved" ELSE @,
                              !.actions = @ + 1]
              /\ output' = Did(Touch(output,
                                     IF outcome = "exported"
                                     THEN {"processing", "status", "progress"}
                                     ELSE {"processing", "status"}, "ui"),
                               "export", FALSE)
    /\ UNCHANGED pipeline

\* process_companies up to process_all: self.db_session = SessionLocal(),
\* AsyncCSVProcessor(csv_path=self.selected_file, ...), set_callbacks.  The
\* constructor raising is reported through call_from_thread.
WorkerStart ==
    /\ pc = "app"
    /\ input.worker = "started"
    /\ \E ok \in BOOLEAN :
          IF ok
          THEN /\ input' = [input EXCEPT !.db_session = "open", !.worker = "running"]
               /\ output' = Did(Touch(output, {"db_session", "selected_file"},
                                      "worker"), "worker", FALSE)
          ELSE /\ input' = [input EXCEPT !.db_session = "open",
                                         !.status = "run_error",
                                         !.worker = "closing"]
               /\ output' = Did(Touch(Touch(output, {"db_session", "selected_file"},
                                            "worker"), {"status"}, "ui"),
                                "worker", FALSE)
    /\ UNCHANGED pipeline

\* The callbacks the pipeline awaits: each hands its widget update to
\* call_from_thread, which runs it on the UI thread.  A completed subject
\* has been written to the store before.
WorkerEvent ==
    /\ pc = "app"
    /\ input.worker = "running"
    /\ input.events < MaxEvents
    /\ \E ev \in {"progress", "start", "complete", "error", "captcha"} :
          /\ input' = [input EXCEPT
                          !.progress = IF ev = "progress" THEN "progress" ELSE @,
                          !.status = IF ev \in {"start", "captcha"} THEN ev ELSE @,
                          !.table = IF ev \in {"complete", "error", "captcha"}
                                    THEN @ + 1 ELSE @,
                          !.events = @ + 1]
          /\ output' = Did(Touch(output,
                                 CASE ev = "progress" -> {"progress"}
                                   [] ev = "start" -> {"status"}
                                   [] ev = "captcha" -> {"status", "table"}
                                   [] OTHER -> {"table"}, "ui"),
                           "worker", FALSE)
          /\ store' = IF ev = "complete"
                      THEN Upsert(store, EventRecord(input.events + 1),
                                  input.events + 1)
                      ELSE store
    /\ UNCHANGED <<companies, headless, stats, idx, nome_empresa, pc, result,
                   exc, company_data, captcha_detected, session, pages, trace>>

\* self.stats = await processor.process_all();
\* await self._on_processing_complete(); or except Exception: the error
\* status through call_from_thread.
WorkerReturn ==
    /\ pc = "app"
    /\ input.worker = "running"
    /\ \E ok \in BOOLEAN :
          IF ok
          THEN /\ input' = [input EXCEPT !.stats = "returned",
                                         !.status = "summary",
                                         !.progress = "press_export",
                                         !.worker = "closing"]
               /\ output' = Did(Touch(Touch(output, {"stats"}, "worker"),
                                      {"status", "progress"}, "ui"),
                                "worker", FALSE)
          ELSE /\ input' = [input EXCEPT !.status = "run_error",
                                         !.worker = "closing"]
               /\ output' = Did(Touch(output, {"status"}, "ui"), "worker", FALSE)
    /\ UNCHANGED pipeline

\* finally: if self.db_session: self.db_session.close()
WorkerClose ==
    /\ pc = "app"
    /\ input.worker = "closing"
    /\ input' = [input EXCEPT !.db_session = "closed", !.worker = "clearing"]
    /\ output' = Did(Touch(output, {"db_session"}, "worker"), "worker", FALSE)
    /\ UNCHANGED pipeline

\* finally: self.processing = False, on the worker thread.
WorkerClear ==
    /\ pc = "app"
    /\ input.worker = "clearing"
    /\ input' = [input EXCEPT !.processing = FALSE, !.worker = "none"]
    /\ output' = Did(Touch(output, {"processing"}, "worker"), "worker", FALSE)
    /\ UNCHANGED pipeline

NextApp ==
    \/ ActionImportFile
    \/ ActionProcess
    \/ ActionExport
    \/ WorkerStart
    \/ WorkerEvent
    \/ WorkerReturn
    \/ WorkerClose
    \/ WorkerClear

SpecApp == InitApp /\ [][NextApp]_vars

(***************************************************************************)
(* Properties                                                              *)
(***************************************************************************)
Fields == {"telefone", "site", "facebook_link", "email", "celular_whatsapp"}

Buckets == {"com_dados", "sem_dados", "erros", "captchas"}

InTrace(op) == \E k \in 1..Len(trace) : trace[k] = op

Before(a, b) ==
    \A k \in 1..Len(trace) : trace[k] = b => \E j \in 1..(k - 1) : trace[j] = a

\* The current subject has been dealt with: the loop is at its head again,
\* or process_all has returned, or an exception has left it.
AtBoundary == pc \in {"loop", "done", "aborted"} /\ idx >= 1

\* No row carries anything written while processing subject i.
Untouched(s, i) ==
    \A p \in 1..Len(s) :
        /\ s[p].data_extracao # i
        /\ \A f \in Fields : s[p][f] # Val(i)

\* C1 (merge monotonicity): in every step, a stored field that is present
\* keeps its value unless the upsert being committed is for that row's
\* subject name and carries a present value for the field, which then
\* becomes the stored value; an absent incoming field never clears it, and
\* no row disappears.
C1_MergeMonotonic ==
    [][\A p \in 1..Len(store) : \A f \in Fields :
          Present(store[p][f]) =>
              /\ p <= Len(store')
              /\ \/ store'[p][f] = store[p][f]
                 \/ /\ pc = "save"
                    /\ company_data.nome_empresa = store[p].nome_empresa
                    /\ Present(company_data[f])
                    /\ store'[p][f] = company_data[f]]_vars

\* C1 witness: a second upsert for a name has just committed with a field
\* absent, and the row still holds the value an earlier subject stored.
C1_Witness ==
    /\ pc = "stats"
    /\ idx >= 2
    /\ \E f \in Fields :
          /\ ~Present(company_data[f])
          /\ LET p == FirstMatch(store, company_data.nome_empresa)
             IN  /\ p # 0
                 /\ Present(store[p][f])
                 /\ store[p].data_extracao < idx
    /\ \E g \in Fields : Present(company_data[g])

C3_ChallengeNonFatal ==
    (AtBoundary /\ InTrace("captchas")) =>
        /\ stats.captchas >= 1
        /\ pc # "aborted"

\* C4 (no per-subject failure aborts the run): once the session is open no
\* exception escapes process_all.
C4_NoEscape == pc # "aborted"

\* C5 (exactly one terminal bucket): a subject that has been dealt with
\* caused exactly one increment among com_dados, sem_dados, erros and
\* captchas, and when it was saved the bucket is com_dados iff one of the
\* five fields of the merged record is present.
C5_OneBucket ==
    AtBoundary =>
        /\ Cardinality({k \in 1..Len(trace) : trace[k] \in Buckets}) = 1
        /\ InTrace("com_dados") => HasData(company_data)
        /\ InTrace("sem_dados") => ~HasData(company_data)

\* C6 (navigation failure is an error): a subject whose search raised a
\* non-challenge exception inside search_company is counted in erros with an
\* error event and in neither com_dados nor sem_dados.
C6_NavErrorCounted ==
    InTrace("nav_error") =>
        /\ ~InTrace("com_dados")
        /\ ~InTrace("sem_dados")
        /\ AtBoundary => (InTrace("erros") /\ InTrace("error_event"))

\* C7 (persistence failure): a subject whose commit failed leaves the store
\* without anything of that subject, is counted in erros with an error
\* event and in neither com_dados nor sem_dados, gets no complete event, and
\* the run goes on to the next subject.
C7_PersistenceFailure ==
    (AtBoundary /\ InTrace("save_failed")) =>
        /\ Untouched(store, idx)
        /\ InTrace("erros")
        /\ InTrace("error_event")
        /\ ~InTrace("com_dados")
        /\ ~InTrace("sem_dados")
        /\ ~InTrace("complete")
        /\ pc # "aborted"

\* C8 (mandatory pacing): whenever a subject has been dealt with and another
\* one follows, the last thing done for it is the inter-subject pause,
\* whatever its outcome.
C8_Pacing ==
    (pc = "loop" /\ idx >= 1 /\ idx < Len(companies)) =>
        trace[Len(trace)] = "sleep"

\* C9 (strict sequential ordering): the i-th iteration handles the i-th
\* subject of the list and no other; within it the search has finished
\* before the record is built, the enrichment runs iff a social link was
\* found and before the store write, nothing of the search or enrichment
\* follows the write, and the store holds nothing of a later subject.
C9_Sequential ==
    /\ idx >= 1 => nome_empresa = companies[idx]
    /\ company_data # NoData => company_data.nome_empresa = companies[idx]
    /\ Before("search_done", "enrich")
    /\ Before("search_done", "save")
    /\ (InTrace("save") /\ Present(company_data.facebook_link)) =>
            Before("enrich", "save")
    /\ \A k \in 1..Len(trace) :
          trace[k] \in {"save", "save_failed"} =>
              \A j \in (k + 1)..Len(trace) :
                  trace[j] \notin {"start", "progress", "search", "extract",
                                  "search_done", "enrich", "save"}
    /\ \A k \in 2..Len(trace) : trace[k] # "start"
    /\ \A i \in (idx + 1)..Len(companies) : Untouched(store, i)

\* C9 witness: two subjects saved in turn, the second after its enrichment.
C9_Witness ==
    /\ pc = "loop"
    /\ idx = 2
    /\ Len(store) = 2
    /\ store[1].nome_empresa = companies[1]
    /\ store[2].nome_empresa = companies[2]
    /\ InTrace("enrich")
    /\ InTrace("save")
    /\ Present(store[2].email)

\* C10 (empty but successful): a subject whose search ran its extraction,
\* found no field and was saved is counted in sem_dados and processadas,
\* gets a complete event and no error event, and is counted in neither erros
\* nor captchas.
C10_EmptyOutcome ==
    (AtBoundary /\ InTrace("extract") /\ InTrace("save")
        /\ ~HasData(company_data)) =>
        /\ InTrace("sem_dados")
        /\ stats.processadas >= 1
        /\ InTrace("complete")
        /\ ~InTrace("error_event")
        /\ ~InTrace("erros")
        /\ ~InTrace("captchas")

\* C11 (unattended escalation): once a challenge has been detected in a
\* headless session, search_company neither waits for a resolution nor
\* extracts any field; it leaves with the challenge-unresolved condition
\* propagating, and the orchestrator counts the subject in captchas (and in
\* no success bucket).
C11_HeadlessEscalation ==
    (headless /\ InTrace("detected")) =>
        /\ ~InTrace("resolved") /\ ~InTrace("timed_out")
        /\ ~InTrace("extract")
        /\ pc = "close" => exc = "captcha"
        /\ AtBoundary =>
              /\ InTrace("captchas")
              /\ ~InTrace("com_dados") /\ ~InTrace("sem_dados")

Shape(text) == [k \in 1..Len(text) |-> IF IsDigit(text[k]) THEN "D" ELSE text[k]]

\* C13 (phone formatting): _format_phone keeps exactly the digits of its
\* argument, in their original order, and lays them out by their count:
\* 11 -> (DD) DDDDD-DDDD, 10 -> (DD) DDDD-DDDD, 9 -> DDDDD-DDDD,
\* 8 -> DDDD-DDDD, any other count -> the bare digits.  "19991234567"
\* becomes "(19) 99123-4567".
C13_PhoneFormat ==
    pc = "phone_formatted" =>
        LET d == SelectSeq(input, IsDigit)
            n == Len(d)
        IN  /\ SelectSeq(output, IsDigit) = d
            /\ n = 11 => Shape(output) = <<"(", "D", "D", ")", " ", "D", "D", "D",
                                            "D", "D", "-", "D", "D", "D", "D">>
            /\ n = 10 => Shape(output) = <<"(", "D", "D", ")", " ", "D", "D", "D",
                                            "D", "-", "D", "D", "D", "D">>
            /\ n = 9 => Shape(output) = <<"D", "D", "D", "D", "D", "-", "D", "D",
                                           "D", "D">>
            /\ n = 8 => Shape(output) = <<"D", "D", "D", "D", "-", "D", "D", "D",
                                           "D">>
            /\ n \notin {8, 9, 10, 11} => output = d
            /\ FormatPhone(<<"1", "9", "9", "9", "1", "2", "3", "4", "5", "6", "7">>)
                   = <<"(", "1", "9", ")", " ", "9", "9", "1", "2", "3", "-", "4",
                       "5", "6", "7">>

\* C13 witness: a ten-digit number written with a separator has been
\* formatted as (DD) DDDD-DDDD.
C13_Witness ==
    /\ pc = "phone_formatted"
    /\ Len(input) = 11
    /\ Len(SelectSeq(input, IsDigit)) = 10
    /\ Len(output) = 14
    /\ output[10] = "-"

\* C14 (export filter): the file written by export_with_uri_filter holds,
\* in store order, one line for each stored row whose site or
\* facebook_link is set and no other line (a row with only telefone,
\* email or celular_whatsapp is left out); when no row qualifies no path
\* is returned and no file is written; the store is the same after the
\* call as before it.
C14_ExportFilter ==
    /\ pc \in {"exported", "export_failed"} => store = input
    /\ pc = "exported" =>
          LET wanted == {p \in 1..Len(store) :
                            store[p].site # None \/ store[p].facebook_link # None}
          IN  /\ Len(output.file) = Cardinality(wanted)
              /\ \A p \in wanted : \E k \in 1..Len(output.file) :
                     /\ output.file[k].data_extracao = store[p].data_extracao
                     /\ output.file[k].site = store[p].site
                     /\ output.file[k].facebook_link = store[p].facebook_link
              /\ \A k \in 1..Len(output.file) : \A j \in 1..(k - 1) :
                     output.file[j].data_extracao < output.file[k].data_extracao
              /\ output.path = (wanted # {})
              /\ wanted = {} => output.file = <<>>

\* C14 witness: of two stored rows, the one with only an email was left
\* out and the one with only a site was exported.
C14_Witness ==
    /\ pc = "exported"
    /\ Len(store) = 2
    /\ store[1].email # None /\ store[1].site = None
    /\ store[1].facebook_link = None
    /\ store[2].site # None /\ store[2].facebook_link = None
    /\ output.path
    /\ Len(output.file) = 1
    /\ output.file[1].data_extracao = 2

Count(op) == Cardinality({k \in 1..Len(trace) : trace[k] = op})

\* C15 (end-to-end scenario): with the subject list <<"a", "b">> in the
\* scenario's environment, the first subject is never enriched and the
\* second is enriched exactly once; when process_all returns, stats is
\* total=2, processadas=2, com_dados=2, sem_dados=0, erros=0, captchas=0
\* and the store holds exactly one row per subject, the first with the site
\* only, the second with the social link and the email.
C15_Scenario ==
    companies = <<"a", "b">> =>
        /\ idx = 1 => ~InTrace("enrich")
        /\ (idx = 2 /\ pc \in {"save", "stats", "complete", "sleep", "loop", "done"})
              => Count("enrich") = 1
        /\ pc = "done" =>
              /\ stats = [total |-> 2, processadas |-> 2, com_dados |-> 2,
                          sem_dados |-> 0, erros |-> 0, captchas |-> 0]
              /\ Len(store) = 2
              /\ store[1].nome_empresa = "a" /\ store[2].nome_empresa = "b"
              /\ store[1].site = Val(1) /\ store[2].facebook_link = Val(2)
              /\ store[2].email = Val(2)
              /\ store[1].telefone = None /\ store[1].facebook_link = None
              /\ store[1].email = None /\ store[1].celular_whatsapp = None
              /\ store[2].telefone = None /\ store[2].site = None

\* C15 witness: the scenario has run to the end, both rows are stored and
\* the second subject's enrichment is in its trace.
C15_Witness ==
    /\ pc = "done"
    /\ companies = <<"a", "b">>
    /\ Len(store) = 2
    /\ store[1].site = Val(1)
    /\ store[2].email = Val(2)
    /\ InTrace("enrich")
    /\ stats.com_dados = 2

\* The part of an email after its "@".
DomainOf(email) ==
    LET at == CHOOSE k \in 1..Len(email) : email[k] = "@"
    IN  SubSeq(email, at + 1, Len(email))

\* C16 (email domain exclusion): _extract_email returns, lowercased, the
\* first email-shaped substring whose domain (the part after "@") is not
\* one of the excluded domains, and nothing when there is none; an email
\* is not skipped because an excluded domain name merely occurs inside it.
C16_EmailExclusion ==
    pc = "email_extracted" =>
        LET ok == {k \in 1..Len(input) :
                      DomainOf(Lower(input[k])) \notin ExcludedDomains}
        IN  IF ok = {} THEN output = NoText
            ELSE \E k \in ok : /\ \A j \in ok : k <= j
                                /\ output = Lower(input[k])

\* What a wrapper stands for: parameter url if present, else q.
Resolved(a) == IF ~a.wrapper THEN a.href ELSE IF a.url # NoHref THEN a.url ELSE a.q

WebsiteByPanel(a) ==
    /\ a.place = "panel"
    /\ Resolved(a) # NoHref
    /\ Resolved(a) \notin {"google.com", "facebook.com"}

WebsiteByKeyword(a) ==
    /\ a.place = "keyword"
    /\ Resolved(a) # NoHref
    /\ Resolved(a) \notin {"google.com", "facebook.com"}

SocialByHost(a) == Resolved(a) = "facebook.com"

\* C17 (redirect unwrap): the extractors decide on each anchor by what it
\* resolves to, a wrapper being replaced by its url parameter if present,
\* else by q, before any host is matched; a wrapper with neither
\* parameter is skipped.  So the site is the resolved target of the first
\* panel anchor that resolves to a non-excluded host, else of the first
\* such keyword anchor, and the social link is the first anchor that
\* resolves to the social host.
C17_RedirectUnwrap ==
    pc = "links_extracted" =>
        LET p == FirstOf({i \in 1..Len(input) : WebsiteByPanel(input[i])})
            k == FirstOf({i \in 1..Len(input) : WebsiteByKeyword(input[i])})
            f == FirstOf({i \in 1..Len(input) : SocialByHost(input[i])})
        IN  /\ output.site = IF p # 0 THEN Resolved(input[p])
                              ELSE IF k # 0 THEN Resolved(input[k])
                              ELSE NoHref
            /\ output.facebook_link = IF f # 0 THEN Resolved(input[f]) ELSE NoHref

\* A text with its leading and trailing spaces removed.
Trimmed(t) ==
    IF \A k \in 1..Len(t) : t[k] = " " THEN <<>>
    ELSE LET first == CHOOSE k \in 1..Len(t) :
                         t[k] # " " /\ \A j \in 1..(k - 1) : t[j] = " "
             last == CHOOSE k \in 1..Len(t) :
                         t[k] # " " /\ \A j \in (k + 1)..Len(t) : t[j] = " "
         IN  SubSeq(t, first, last)

HasName(row) == row.cell /\ Trimmed(row.text) # <<>>

\* C18 (subject list ingestion): for any subject file read_csv returns the
\* trimmed values of the Nome_Fantasia cells that are not blank, in file
\* row order, duplicates kept and blank or missing cells dropped, and
\* total is the length of that sequence.
C18_SubjectList ==
    pc \in {"csv_read", "csv_raised"} =>
        LET named == SelectSeq(IF input.column THEN input.rows ELSE <<>>, HasName)
        IN  /\ ~output.raised
            /\ output.companies = [k \in 1..Len(named) |-> Trimmed(named[k].text)]
            /\ output.total = Len(named)

\* C19 (missing subject list is fatal): when the subject file is missing
\* at construction, or cannot be read when process_all starts, the failure
\* leaves no browser session or page open, no event emitted, no subject
\* started, nothing counted and the store as it was.
C19_SourceNotFound ==
    pc = "source_not_found" =>
        /\ session = "closed"
        /\ pages = 0
        /\ trace = <<>>
        /\ idx = 0
        /\ stats = ZeroStats
        /\ store = <<>>

\* C19 witness: a run over a non-empty subject list has failed on the
\* subject file.
C19_Witness ==
    /\ pc = "source_not_found"
    /\ Len(companies) = MaxSubjects

\* The observable steps of one subject's iteration.
IsEvent(op) ==
    op \in {"start", "progress", "search", "enrich", "save", "com_dados",
            "sem_dados", "complete"}

\* The orders in which a subject's iteration can run to its complete
\* event: with or without enrichment, counted with or without data.
FullOrders ==
    {<<"start", "progress", "search">> \o e \o <<"save", b, "complete">> :
        e \in {<<>>, <<"enrich">>}, b \in {"com_dados", "sem_dados"}}

IsPrefix(s, t) == Len(s) <= Len(t) /\ s = SubSeq(t, 1, Len(s))

\* C20 (per-subject event order): at every moment the events of the
\* current subject are a prefix of start, progress, search, (enrichment,)
\* upsert, statistics update, complete: each happens at most once and in
\* that order, and the complete event is never emitted before the upsert
\* has committed and the statistics were updated.  For a subject whose
\* iteration succeeded the sequence is the full one, with enrichment
\* exactly when a social link was found.  The record the complete event
\* carries is the one persisted: each of its present fields is the stored
\* value of the subject's row.
C20_EventOrder ==
    LET events == SelectSeq(trace, IsEvent)
    IN  /\ \E full \in FullOrders : IsPrefix(events, full)
        /\ pc = "sleep" =>
              events =
                  <<"start", "progress", "search">>
                  \o (IF Present(company_data.facebook_link) THEN <<"enrich">>
                      ELSE <<>>)
                  \o <<"save", BucketOf(company_data), "complete">>
        /\ (events # <<>> /\ events[Len(events)] = "complete") =>
              /\ company_data.nome_empresa = nome_empresa
              /\ FirstMatch(store, nome_empresa) # 0
              /\ \A f \in Fields :
                    Present(company_data[f]) =>
                        store[FirstMatch(store, nome_empresa)][f] = company_data[f]

\* C20 witness: an enriched subject has completed; its complete event was
\* the last step and its email is in the store.
C20_Witness ==
    /\ pc = "sleep"
    /\ InTrace("enrich")
    /\ trace[Len(trace)] = "complete"
    /\ Present(company_data.email)
    /\ store[FirstMatch(store, nome_empresa)].email = company_data.email

\* C21 as stated (progress value): the k-th progress event carries the
\* percentage 100 * k / total rounded to the nearest integer.
C21_Original ==
    pc = "progress_events" =>
        \A k \in 1..Len(output) :
            /\ 2 * (100 * k - output[k] * input.total) <= input.total
            /\ 2 * (output[k] * input.total - 100 * k) <= input.total

\* C21 (progress value, amended): the k-th progress event carries the
\* percentage 100 * k / total truncated to an integer (never rounded up);
\* the percentages are non-decreasing over the run and the last subject's
\* event carries 100.
C21_ProgressTruncated ==
    pc = "progress_events" =>
        /\ Len(output) = input.idx
        /\ \A k \in 1..Len(output) :
              /\ output[k] * input.total <= 100 * k
              /\ 100 * k < (output[k] + 1) * input.total
        /\ \A k \in 2..Len(output) : output[k - 1] <= output[k]
        /\ input.idx = input.total => output[Len(output)] = 100

\* C21 witness: the second of three progress events carried 66, where
\* rounding gives 67, and the third carried 100.
C21_Witness ==
    /\ pc = "progress_events"
    /\ input.total = 3
    /\ output = <<33, 66, 100>>

\* C22 (notification before recovery): in the iteration of a subject whose
\* search met a challenge, the caller is notified after the detection and
\* before any recovery: before the challenge-unresolved condition is
\* raised in a headless session, and before the resolution wait starts
\* (so before it resolves or times out) in an attended one.
C22_NotifyFirst ==
    /\ Before("detected", "captcha_notify")
    /\ Before("captcha_notify", "escalated")
    /\ Before("captcha_notify", "resolved")
    /\ Before("captcha_notify", "timed_out")
    /\ pc = "gate" => trace[Len(trace)] = "captcha_notify"
    /\ exc = "captcha" => InTrace("captcha_notify")

\* C22 witness: a headless search has just raised the challenge-unresolved
\* condition, the notification being the step before it.
C22_Witness ==
    /\ headless
    /\ pc = "close"
    /\ exc = "captcha"
    /\ Len(trace) >= 3
    /\ SubSeq(trace, Len(trace) - 2, Len(trace)) =
           <<"detected", "captcha_notify", "escalated">>

\* C23 (gate state across subjects): the challenge-detected flag is false
\* whenever a search_company call starts, also after a subject whose
\* challenge was escalated or timed out.
C23_GateIdleAtSearch ==
    pc = "search" => ~captcha_detected

IsEnrich(op) == op = "enrich"

HostOf(url) ==
    IF url # <<>> /\ Head(url) = "https://"
    THEN LET rest == Tail(url)
             k == FirstOf({i \in 1..Len(rest) :
                              rest[i] \in {"/padaria", "/loja", "/posts/",
                                           "/p/", "?", "#"}})
         IN  IF k = 0 THEN rest ELSE SubSeq(rest, 1, k - 1)
    ELSE <<>>

\* C26: every social link _extract_facebook_link returns is a non-empty URL
\* whose host contains facebook.com or instagram.com and whose path has
\* neither "/posts/" nor "/p/"; a link whose host is not a social domain is
\* never returned, whatever its query string or fragment mentions.
C26_SocialLink ==
    (pc = "social_extracted" /\ output.found) =>
        /\ output.url # <<>>
        /\ MentionsSocial(HostOf(output.url))
        /\ ~IsPost(output.url)

\* "(19) 9DDDD-DDDD" for the nine digits of a number as written.
WithAreaCode(n) ==
    LET d == RemoveNonDigits(n)
    IN  <<"(", "1", "9", ")", " ">> \o SubSeq(d, 1, 5) \o <<"-">>
            \o SubSeq(d, 6, 9)

\* C27: when no area-code pattern matches and the content has a keyword
\* followed within 50 characters by a 9-digit mobile number, the result of
\* _extract_whatsapp is that number as "(19) 9DDDD-DDDD", the area code
\* written once.
C27_ContextFallback ==
    (/\ pc = "whatsapp_extracted"
     /\ \A p \in 1..4 : FindAll(PhonePatterns[p], input) = <<>>
     /\ ContextHits(input) # {}) =>
        /\ output.found
        /\ \E k \in 1..Len(input) :
              /\ input[k] \in NineDigitTexts
              /\ output.text = WithAreaCode(input[k])

\* The positions of the rows of s that carry the name.
RowsOf(s, name) == {p \in 1..Len(s) : s[p].nome_empresa = name}

\* C28: starting from an empty store, after any sequence of upserts the
\* store holds at most one row per subject-name string; an upsert for a name
\* without a row inserts one row with all fields as given, an upsert for a
\* name with a row inserts none; names that differ in case or whitespace
\* are different names.
C28_OneRowPerName ==
    [][LET d == output'.data
       IN  /\ \A name \in UpsertNames : Cardinality(RowsOf(store', name)) <= 1
           /\ (output'.ok /\ RowsOf(store, d.nome_empresa) = {}) =>
                 /\ Len(store') = Len(store) + 1
                 /\ SubSeq(store', 1, Len(store)) = store
                 /\ store'[Len(store')].nome_empresa = d.nome_empresa
                 /\ \A f \in Fields : store'[Len(store')][f] = d[f]
           /\ RowsOf(store, d.nome_empresa) # {} => Len(store') = Len(store)
           /\ ~output'.ok => store' = store]_vars

C28_Witness ==
    /\ input = 3
    /\ Len(store) = 2
    /\ store[1].nome_empresa = "Padaria"
    /\ store[2].nome_empresa = "padaria"
    /\ output.ok
    /\ output.data.nome_empresa = "Padaria"

\* C29: an upsert that finds a row leaves the row's id, name and
\* data_extracao as they were, leaves the fields whose incoming value is
\* absent as they were, and leaves every other row as it was; no row is
\* ever removed.
C29_UpdateFrame ==
    [][LET d == output'.data
       IN  /\ \A p \in RowsOf(store, d.nome_empresa) :
                 /\ Len(store') = Len(store)
                 /\ store'[p].id = store[p].id
                 /\ store'[p].nome_empresa = store[p].nome_empresa
                 /\ store'[p].data_extracao = store[p].data_extracao
                 /\ \A f \in Fields : d[f] = None => store'[p][f] = store[p][f]
                 /\ \A q \in 1..Len(store) : q # p => store'[q] = store[q]
           /\ Len(store') >= Len(store)
           /\ \A q \in 1..Len(store) :
                 /\ store'[q].id = store[q].id
                 /\ store'[q].nome_empresa = store[q].nome_empresa]_vars

C29_Witness ==
    /\ input = 3
    /\ Len(store) = 2
    /\ output.ok
    /\ output.data.nome_empresa = "padaria"
    /\ output.data.telefone = None
    /\ output.data.email = Val(3)
    /\ store[1] = [id |-> 1, nome_empresa |-> "padaria", telefone |-> Val(1),
                   site |-> None, facebook_link |-> None, email |-> Val(3),
                   celular_whatsapp |-> None, data_extracao |-> 1]
    /\ store[2].nome_empresa = "Padaria "
    /\ store[2].data_extracao = 2

StatusOf(bucket) ==
    CASE bucket = "com_dados" -> "found"
      [] bucket = "sem_dados" -> "none"
      [] bucket = "erros" -> "error"
      [] bucket = "captchas" -> "challenge"

\* C31: for every subject that has been dealt with exactly one row was
\* added to the table, and its status is that of the statistics bucket the
\* subject was counted in.
C31_TerminalStatus ==
    AtBoundary =>
        LET rows == TableRows(trace, company_data)
        IN  /\ Len(rows) = 1
            /\ \A b \in Buckets : InTrace(b) => rows[1] = StatusOf(b)

\* C32: while a subject is processed the store holds nothing of it until
\* its upsert has committed, and from then on its row carries the record
\* merged from both stages: the write comes after the search and, when a
\* social link was found, after the enrichment; a subject that fails before
\* the commit, the failed write included, leaves the store as it was.
C32_NoPartialRow ==
    idx >= 1 =>
        /\ ~InTrace("save") => Untouched(store, idx)
        /\ InTrace("save") =>
              LET p == FirstMatch(store, nome_empresa)
              IN  /\ InTrace("search_done")
                  /\ Present(company_data.facebook_link) => InTrace("enrich")
                  /\ p # 0
                  /\ \A f \in Fields :
                        /\ Present(company_data[f]) => store[p][f] = company_data[f]
                        /\ store[p][f] = Val(idx) => company_data[f] = Val(idx)
                  /\ \A q \in 1..Len(store) : q # p => Untouched(<<store[q]>>, idx)

C32_Witness ==
    /\ companies = <<"a", "a">>
    /\ idx = 2
    /\ InTrace("enrich")
    /\ InTrace("save_failed")
    /\ Present(company_data.email)
    /\ Len(store) = 1
    /\ store[1].email = None
    /\ store[1].facebook_link = None

\* C33: no page is open at any subject boundary, whether the subject
\* succeeded, failed or was challenged.
C33_Original == pc \in {"loop", "done", "aborted"} => pages = 0

\* What does hold (under SpecPagesClose): the browser context is open
\* exactly from the entry of the "async with" block to the end of the run,
\* by return or by exception; at most one page is open at a time; and in
\* the runs where page.close() returns no page is open at a boundary.
PageHygiene ==
    /\ session = "open" <=>
          pc \notin {"construct", "read_csv", "source_not_found", "enter",
                     "done", "aborted"}
    /\ pages \in {0, 1}
    /\ pc \in {"loop", "done", "aborted", "search", "progress"} => pages = 0

\* C34: once the subject list is read and the session is entered,
\* process_all eventually returns the statistics, every subject having been
\* started.
C34_Termination == (pc = "enter") ~> (pc = "done" /\ idx = Len(companies))

\* C35: no attribute or widget of the app that the UI thread reads or
\* writes is read or written on the worker thread: what a pipeline event
\* changes is changed on the UI thread, the end of the run included.
C35_Marshaled ==
    pc = "app" =>
        \A a \in output.accesses : \A b \in output.accesses :
            a.attr = b.attr => a.by = b.by

\* C38: a run is active exactly while the processing flag is set, so at
\* most one at a time; while it is set an import, process or export action
\* leaves the selected file, the store and the worker as they are; a
\* process action without a selected file starts nothing; the flag is
\* cleared when the worker ends, after a return and after a failure.
C38_RunGuard ==
    [][/\ input'.processing <=> input'.worker # "none"
       /\ (input.processing /\ output'.last.action \in {"import", "process", "export"}) =>
             /\ output'.last.refused
             /\ input'.selected_file = input.selected_file
             /\ input'.processing
             /\ input'.worker = input.worker
             /\ input'.events = input.events
             /\ input'.db_session = input.db_session
             /\ store' = store
       /\ (output'.last.action = "process" /\ input.selected_file = "none") =>
             /\ output'.last.refused
             /\ input'.worker = "none"
             /\ ~input'.processing
       /\ (input.worker = "clearing" /\ input'.worker # "clearing") =>
             ~input'.processing]_vars

C38_Witness ==
    /\ pc = "app"
    /\ input.worker = "running"
    /\ input.processing
    /\ input.db_session = "open"
    /\ input.status = "already_running"
    /\ output.last = [action |-> "process", refused |-> TRUE]
    /\ input.events = 1
    /\ Len(store) = 1

FourBuckets(st) == st.com_dados + st.sem_dados + st.erros + st.captchas

\* C36: in the runs where no event callback raises, at every subject
\* boundary com_dados + sem_dados + erros + captchas is the number of
\* subjects handled so far, after the return it is total, and no counter
\* ever decreases.
C36_FourBuckets ==
    [][/\ pc' \in {"loop", "done"} => FourBuckets(stats') = idx'
       /\ pc' = "done" => FourBuckets(stats') = stats'.total
       /\ pc' # "aborted"
       /\ \A b \in Buckets : stats'[b] >= stats[b]
       /\ stats'.processadas >= stats.processadas]_vars

C36_Witness ==
    /\ pc = "done"
    /\ stats.total = 2
    /\ stats.com_dados = 1
    /\ stats.captchas = 1
    /\ stats.erros = 0
    /\ stats.sem_dados = 0

\* The current subject was counted in processadas (with com_dados or
\* sem_dados, in the same step).
CountedProcessed == InTrace("com_dados") \/ InTrace("sem_dados")

\* C37: at every subject boundary processadas = com_dados + sem_dados, a
\* subject is counted in processadas exactly when its record was committed,
\* and a subject counted in erros or captchas is not counted in processadas.
C37_Processed ==
    AtBoundary =>
        /\ stats.processadas = stats.com_dados + stats.sem_dados
        /\ CountedProcessed <=> InTrace("save")
        /\ (InTrace("erros") \/ InTrace("captchas")) => ~CountedProcessed

\* C39: when the subject file yields no subject, process_all goes from the
\* read through the session to the return and nowhere else: no subject is
\* started, so no event, no search and no progress computation take place,
\* nothing is written, and every statistic is 0.
C39_EmptyList ==
    companies = <<>> =>
        /\ pc \in {"construct", "read_csv", "source_not_found", "enter", "loop",
                   "done"}
        /\ trace = <<>>
        /\ idx = 0
        /\ pages = 0
        /\ store = <<>>
        /\ stats = ZeroStats
        /\ pc = "loop" => session = "open"
        /\ pc = "done" => session = "closed"

C39_Witness ==
    /\ companies = <<>>
    /\ pc = "done"
    /\ stats = ZeroStats
    /\ store = <<>>
    /\ trace = <<>>
    /\ session = "closed"

====
